---- MODULE Spec2Model ----
(***************************************************************************)
(* Model of src/app.py, the EXIM trade analysis dashboard: load_data (the  *)
(* loader/normaliser), the sidebar filter, and the five reports the script *)
(* computes on every run.  A Streamlit script is re-run from top to bottom *)
(* on every widget interaction, so every interaction is one action that    *)
(* changes one widget value and recomputes everything below line 54.       *)
(*                                                                         *)
(* Representation.  Numbers of the sheet are integers.  A nullable float   *)
(* (UNIT PRICE, ASP_COMPUTED, a mean, a growth percentage) is a record     *)
(* [nan, n, d]: NaN, or the exact rational n/d with d > 0 (rounding and    *)
(* infinities are not modelled).  A timestamp is a record [nat, day, tod]: *)
(* NaT, or day number `day' at time of day `tod' (tod = 0 is midnight).    *)
(* A null categorical cell is the string Null.  A raw numeric cell is a    *)
(* record [kind, v]: a number ("num"), a number written as money such as   *)
(* "$1,000" ("money"), any other text ("text"), or an empty cell.          *)
(*                                                                         *)
(* Widgets.  A multiselect value is a set; the button is True only in the  *)
(* run its press triggers; a selectbox or number input keeps its value     *)
(* while its options or default stay the same, and a widget that a failed  *)
(* run did not reach is created anew by the next run.                      *)
(*                                                                         *)
(* Sheets.  Every sheet has at least one row and one DATE cell that        *)
(* parses: the date widgets of lines 66-67 and 112-114 take their defaults *)
(* from the first and last date of the table.                              *)
(***************************************************************************)
EXTENDS Integers, Sequences, FiniteSets, TLC

\* ------------------------------------------------------------------------
\* Bounds of the model
\* ------------------------------------------------------------------------
MaxRows == 2        \* rows of a sheet
MaxSummaryRows == 3 \* rows of a sheet of SpecSummary
MaxDay == 2         \* calendar days 1..MaxDay
TopSellers == 11    \* distinct sellers of the sheets of SpecTop

\* comp_summary.head(10)
HeadN == 10
\* float(df_filtered["ASP_COMPUTED"].max() or 1000)
AspMaxFallback == 1000

\* ------------------------------------------------------------------------
\* Values
\* ------------------------------------------------------------------------
Null == "<NA>"
NaN == [nan |-> TRUE, n |-> 0, d |-> 1]
Num(x) == [nan |-> FALSE, n |-> x, d |-> 1]
NaT == [nat |-> TRUE, day |-> 0, tod |-> 0]
Ts(day, tod) == [nat |-> FALSE, day |-> day, tod |-> tod]

\* float division a / b of two numbers, b > 0
Div(a, b) == [nan |-> FALSE, n |-> a, d |-> b]

\* a == b on floats where NaN is "no value" on both sides
RatEq(a, b) == /\ a.nan = b.nan
               /\ ~a.nan => a.n * b.d = b.n * a.d

\* a <= b on floats: False as soon as one side is NaN
RatLeq(a, b) == ~a.nan /\ ~b.nan /\ a.n * b.d <= b.n * a.d

RatLt(a, b) == ~a.nan /\ ~b.nan /\ a.n * b.d < b.n * a.d

RatAdd(a, b) == [nan |-> FALSE, n |-> a.n * b.d + b.n * a.d, d |-> a.d * b.d]

\* a <= b on timestamps: False as soon as one side is NaT
TsLeq(a, b) == /\ ~a.nat /\ ~b.nat
               /\ \/ a.day < b.day
                  \/ a.day = b.day /\ a.tod <= b.tod

\* pd.to_datetime(d) of a datetime.date: midnight of that day
ToDatetime(day) == Ts(day, 0)

\* Timestamp.date(), what st.date_input keeps of a timestamp default
DateOf(ts) == ts.day

\* Lexicographic order of the labels used in the sheets (Python's sorted)
Labels == <<"A", "B", "H1", "H2", "I1", "I2",
            "S01", "S02", "S03", "S04", "S05", "S06", "S07", "S08", "S09",
            "S10", "S11", "S12", "<NA>">>

Ord(s) == CHOOSE i \in 1..Len(Labels) : Labels[i] = s

\* ------------------------------------------------------------------------
\* Sequences
\* ------------------------------------------------------------------------
Range(s) == {s[i] : i \in 1..Len(s)}

\* rows[mask]: the rows at the positions where p holds, in order
RECURSIVE Select(_, _)
Select(rows, keep) ==
    IF rows = <<>> THEN <<>>
    ELSE IF keep[1] THEN <<Head(rows)>> \o Select(Tail(rows), Tail(keep))
         ELSE Select(Tail(rows), Tail(keep))

\* Series.sum() of an integer column
RECURSIVE SumCol(_, _)
SumCol(rows, col) ==
    IF rows = <<>> THEN 0 ELSE Head(rows)[col] + SumCol(Tail(rows), col)

\* sorted(S) for a set of labels
RECURSIVE Sorted(_)
Sorted(S) ==
    IF S = {} THEN <<>>
    ELSE LET m == CHOOSE x \in S : \A y \in S : Ord(x) <= Ord(y)
         IN <<m>> \o Sorted(S \ {m})

\* ------------------------------------------------------------------------
\* load_data (lines 10-51)
\* ------------------------------------------------------------------------
Names == {"DATE", "BUYER", "SELLER", "HS CODE", "INDUSTRY", "QUANTITY",
          "VALUE(USD)", "UNIT PRICE"}

\* a header cell with stray padding around the name
Padded(name) == " " \o name \o " "

\* str(c).strip() of a header cell
Strip(c) == IF \E n \in Names : c = Padded(n)
            THEN CHOOSE n \in Names : c = Padded(n)
            ELSE c

\* df.columns after line 16
Columns(sh) == {Strip(c) : c \in sh.headers}

\* pd.to_datetime(cell, errors="coerce")
ToDatetimeCoerce(cell) == IF cell.kind = "ts" THEN Ts(cell.day, cell.tod) ELSE NaT

\* .astype(str).replace(r"[\$,]", "", regex=True).str.strip(): a cell written
\* as money ("$1,000") becomes the text of its number
StripMoney(cell) == IF cell.kind = "money" THEN [cell EXCEPT !.kind = "num"] ELSE cell

\* pd.to_numeric(cell, errors="coerce")
ToNumeric(cell) == IF cell.kind = "num" THEN Num(cell.v) ELSE NaN

\* .fillna(0)
FillNa0(x) == IF x.nan THEN 0 ELSE x.n

\* lines 22-24
CleanQuantity(cell) == FillNa0(ToNumeric(cell))

\* lines 26-33
CleanValue(cell) == FillNa0(ToNumeric(StripMoney(cell)))

\* lines 35-42
CleanUnitPrice(cell) == ToNumeric(StripMoney(cell))

\* line 46 without .isna(): the fallback taken wherever QUANTITY > 0
MaskAnyPositive(asp, quantity) == quantity > 0

\* line 46: mask_missing_asp for one row
MaskMissingAsp(asp, quantity) == asp.nan /\ quantity > 0

\* lines 45-49 for one row whose base columns were coerced
AspComputed(cols, r) ==
    LET asp0 == IF "UNIT PRICE" \in cols THEN r["UNIT PRICE"] ELSE NaN
    IN IF MaskMissingAsp(asp0, r["QUANTITY"])
       THEN Div(r["VALUE(USD)"], r["QUANTITY"])
       ELSE asp0

\* lines 18-42 for one raw row: each coercion runs only if its column exists
Coerce(cols, raw) ==
    [c \in cols |->
        CASE c = "DATE" -> ToDatetimeCoerce(raw[c])
          [] c = "QUANTITY" -> CleanQuantity(raw[c])
          [] c = "VALUE(USD)" -> CleanValue(raw[c])
          [] c = "UNIT PRICE" -> CleanUnitPrice(raw[c])
          [] OTHER -> raw[c]]

\* load_data with line 45 reading df["UNIT PRICE"] unguarded
LoadKeyErrorStrict(cols) ==
    IF "UNIT PRICE" \notin cols THEN "UNIT PRICE"
    ELSE IF "QUANTITY" \notin cols THEN "QUANTITY"
    ELSE IF "VALUE(USD)" \notin cols THEN "VALUE(USD)"
    ELSE ""

\* The column whose lookup raises KeyError inside load_data, "" if none:
\* df["QUANTITY"] on line 46, then df.loc[..., "VALUE(USD)"] on line 48
LoadKeyError(cols) ==
    IF "QUANTITY" \notin cols THEN "QUANTITY"
    ELSE IF "VALUE(USD)" \notin cols THEN "VALUE(USD)"
    ELSE ""

\* load_data: [err, rows]; rows is the returned table when err = ""
load_data(sh) ==
    LET cols == Columns(sh)
        ke == LoadKeyError(cols)
    IN IF ke # "" THEN [err |-> ke, rows |-> <<>>]
       ELSE [err |-> "",
             rows |-> [i \in 1..Len(sh.rows) |->
                        LET r == Coerce(cols, sh.rows[i])
                        IN [c \in cols \cup {"ASP_COMPUTED"} |->
                              IF c = "ASP_COMPUTED" THEN AspComputed(cols, r)
                              ELSE r[c]]]]

\* ------------------------------------------------------------------------
\* The script body: sidebar (lines 54-89)
\* ------------------------------------------------------------------------
\* The column whose lookup raises KeyError in the sidebar code, "" if none:
\* df["BUYER"], df["HS CODE"], df["SELLER"], df["INDUSTRY"] on lines 61-64,
\* df["DATE"] on line 66
ScriptKeyError(cols) ==
    IF "BUYER" \notin cols THEN "BUYER"
    ELSE IF "HS CODE" \notin cols THEN "HS CODE"
    ELSE IF "SELLER" \notin cols THEN "SELLER"
    ELSE IF "INDUSTRY" \notin cols THEN "INDUSTRY"
    ELSE IF "DATE" \notin cols THEN "DATE"
    ELSE ""

\* df[col].dropna().unique()
Unique(rows, col) == {rows[i][col] : i \in 1..Len(rows)} \ {Null}

\* sorted(df[col].dropna().unique()), the options of a multiselect
Options(rows, col) == Sorted(Unique(rows, col))

Dated(rows) == {i \in 1..Len(rows) : ~rows[i]["DATE"].nat}

\* df["DATE"].min(), NaT rows skipped
date_min(rows) ==
    LET i == CHOOSE i \in Dated(rows) :
                 \A j \in Dated(rows) : TsLeq(rows[i]["DATE"], rows[j]["DATE"])
    IN rows[i]["DATE"]

\* df["DATE"].max(), NaT rows skipped
date_max(rows) ==
    LET i == CHOOSE i \in Dated(rows) :
                 \A j \in Dated(rows) : TsLeq(rows[j]["DATE"], rows[i]["DATE"])
    IN rows[i]["DATE"]

\* the default of the "Date Range" widget: the two bounds as calendar dates
DefaultDateRange(rows) == <<DateOf(date_min(rows)), DateOf(date_max(rows))>>

\* df[col].isin(selected)
IsIn(rows, col, selected) == [i \in 1..Len(rows) |-> rows[i][col] \in selected]

\* mask &= other
MaskAnd(mask, other) == [i \in 1..Len(mask) |-> mask[i] /\ other[i]]

\* lines 83-85: (DATE >= to_datetime(date_range[0])) & (DATE <= to_datetime(date_range[1]))
DateMask(rows, dr) ==
    [i \in 1..Len(rows) |->
        /\ TsLeq(ToDatetime(dr[1]), rows[i]["DATE"])
        /\ TsLeq(rows[i]["DATE"], ToDatetime(dr[2]))]

\* lines 72-85: the mask built when "Apply Filters" was pressed
FilterMask(rows, b, h, s, ind, dr) ==
    LET m0 == [i \in 1..Len(rows) |-> TRUE]
        m1 == IF b # {} THEN MaskAnd(m0, IsIn(rows, "BUYER", b)) ELSE m0
        m2 == IF h # {} THEN MaskAnd(m1, IsIn(rows, "HS CODE", h)) ELSE m1
        m3 == IF s # {} THEN MaskAnd(m2, IsIn(rows, "SELLER", s)) ELSE m2
        m4 == IF ind # {} THEN MaskAnd(m3, IsIn(rows, "INDUSTRY", ind)) ELSE m3
    IN IF dr # <<>> THEN MaskAnd(m4, DateMask(rows, dr)) ELSE m4

\* lines 71-89: df_filtered of one run
FilteredView(rows, pressed, b, h, s, ind, dr) ==
    IF pressed THEN Select(rows, FilterMask(rows, b, h, s, ind, dr))
    ELSE rows

\* date_range[1] on line 84 raises IndexError when only one date is picked
RangeIndexError(pressed, dr) == pressed /\ Len(dr) = 1

\* ------------------------------------------------------------------------
\* Reports (lines 91-212)
\* ------------------------------------------------------------------------
\* Series.mean(): NaN skipped, NaN when nothing is left
RECURSIVE RatSum(_)
RatSum(vals) == IF vals = <<>> THEN Num(0) ELSE RatAdd(Head(vals), RatSum(Tail(vals)))

\* a mean that counts a NaN as zero
MeanNaNAsZero(vals) ==
    LET total == RatSum(SelectSeq(vals, LAMBDA x : ~x.nan))
    IN [nan |-> FALSE, n |-> total.n, d |-> total.d * Len(vals)]

Mean(vals) ==
    LET present == SelectSeq(vals, LAMBDA x : ~x.nan)
        total == RatSum(present)
    IN IF present = <<>> THEN NaN
       ELSE [nan |-> FALSE, n |-> total.n, d |-> total.d * Len(present)]

AspOf(rows) == [i \in 1..Len(rows) |-> rows[i]["ASP_COMPUTED"]]

\* groupby(col, dropna=False): a null key is a group of its own
GroupKeysKeepNull(rows, col) == Sorted({rows[i][col] : i \in 1..Len(rows)})

\* groupby(col): the sorted non-null keys; a row with a null key is in no group
GroupKeys(rows, col) == Sorted(Unique(rows, col))

GroupRows(rows, col, key) == SelectSeq(rows, LAMBDA r : r[col] = key)

\* groupby(col).agg(Total_Qty=sum, Total_Value=sum, Avg_ASP=mean).reset_index()
GroupAgg(rows, col) ==
    LET keys == GroupKeys(rows, col)
    IN [k \in 1..Len(keys) |->
          LET g == GroupRows(rows, col, keys[k])
          IN [key |-> keys[k],
              Total_Qty |-> SumCol(g, "QUANTITY"),
              Total_Value |-> SumCol(g, "VALUE(USD)"),
              Avg_ASP |-> Mean(AspOf(g))]]

\* sort_values(ascending=True)
BeforeAscending(x, y) == ~x.nan /\ (y.nan \/ RatLt(x, y))

\* sort_values(ascending=False): x goes before y when x is larger; NaN last
Before(x, y) == ~x.nan /\ (y.nan \/ RatLt(y, x))

\* place p in an already sorted sequence, after the entries it ties with
RECURSIVE Insert(_, _)
Insert(p, sorted) ==
    IF sorted = <<>> THEN <<p>>
    ELSE IF Before(p.k, Head(sorted).k) THEN <<p>> \o sorted
         ELSE <<Head(sorted)>> \o Insert(p, Tail(sorted))

\* Ties keep their original order; the claims below do not rely on it.
RECURSIVE SortDesc(_)
SortDesc(pairs) ==
    IF pairs = <<>> THEN <<>>
    ELSE Insert(pairs[Len(pairs)], SortDesc(SubSeq(pairs, 1, Len(pairs) - 1)))

SortValuesDesc(rows, col) ==
    LET sorted == SortDesc([i \in 1..Len(rows) |-> [k |-> rows[i][col], row |-> rows[i]]])
    IN [i \in 1..Len(sorted) |-> sorted[i].row]

\* lines 97-101
Summary(rows, group) == GroupAgg(rows, group)

\* a cumulative sum up to and including a period bound (lines 116-117)
UpTo(rows, period) ==
    Select(rows, [i \in 1..Len(rows) |-> TsLeq(rows[i]["DATE"], ToDatetime(period))])

\* lines 119-130: (end - start) / start * 100 if start else np.nan
Growth(rows, col, sp, ep) ==
    LET s == SumCol(UpTo(rows, sp), col)
        e == SumCol(UpTo(rows, ep), col)
    IN IF s = 0 THEN NaN
       ELSE IF s > 0 THEN Div((e - s) * 100, s)
       ELSE Div((s - e) * 100, 0 - s)

\* lines 141-146
AspSummary(rows, group) ==
    LET keys == GroupKeys(rows, group)
        means == [k \in 1..Len(keys) |->
                    [key |-> keys[k],
                     ASP_COMPUTED |-> Mean(AspOf(GroupRows(rows, group, keys[k])))]]
    IN SortValuesDesc(means, "ASP_COMPUTED")

\* lines 154-157: the options of the "Select HS Code" box
HsOptions(rows, h) == IF Cardinality(h) > 0 THEN Sorted(h) ELSE Options(rows, "HS CODE")

\* Series.min() / Series.max() of ASP_COMPUTED, NaN skipped
AspMin(rows) ==
    LET v == {rows[i]["ASP_COMPUTED"] : i \in 1..Len(rows)} \ {x \in {rows[i]["ASP_COMPUTED"] : i \in 1..Len(rows)} : x.nan}
    IN IF v = {} THEN NaN ELSE CHOOSE x \in v : \A y \in v : RatLeq(x, y)

AspMax(rows) ==
    LET v == {rows[i]["ASP_COMPUTED"] : i \in 1..Len(rows)} \ {x \in {rows[i]["ASP_COMPUTED"] : i \in 1..Len(rows)} : x.nan}
    IN IF v = {} THEN NaN ELSE CHOOSE x \in v : \A y \in v : RatLeq(y, x)

\* x or fallback: a float is falsy only when it is zero (NaN is truthy)
OrElse(x, fallback) == IF ~x.nan /\ x.n = 0 THEN Num(fallback) ELSE x

\* line 159
DefaultAspMin(rows) == OrElse(AspMin(rows), 0)

\* line 160
DefaultAspMax(rows) == OrElse(AspMax(rows), AspMaxFallback)

\* lines 162-166
TargetDf(rows, hs, lo, hi) ==
    SelectSeq(rows, LAMBDA r : /\ hs # Null
                               /\ r["HS CODE"] = hs
                               /\ RatLeq(lo, r["ASP_COMPUTED"])
                               /\ RatLeq(r["ASP_COMPUTED"], hi))

\* lines 167-171
TargetSummary(rows, hs, lo, hi) == GroupAgg(TargetDf(rows, hs, lo, hi), "BUYER")

\* lines 179-188
CompSummary(rows) ==
    LET g == GroupAgg(rows, "SELLER")
        keyed == [i \in 1..Len(g) |-> [k |-> Num(g[i].Total_Value), row |-> g[i]]]
        sorted == SortDesc(keyed)
    IN [i \in 1..Len(sorted) |-> sorted[i].row]

\* DataFrame.head(n)
HeadRows(rows, n) == SubSeq(rows, 1, IF Len(rows) < n THEN Len(rows) ELSE n)

\* the rows pivot_table groups: both keys present
Paired(rows) == SelectSeq(rows, LAMBDA r : r["SELLER"] # Null /\ r["HS CODE"] # Null)

\* pivot_table without fill_value
FillValueNone(cell, fill) == cell

\* DataFrame.fillna(fill_value) of one cell
FillValue(cell, fill) == IF cell.nan THEN Num(fill) ELSE cell

\* lines 193-200: groupby([SELLER, HS CODE]).sum().unstack(), then fill_value
Pivot(rows) ==
    LET p == Paired(rows)
        idx == Unique(p, "SELLER")
        cols == Unique(p, "HS CODE")
        unstacked == [s \in idx |-> [h \in cols |->
                        LET g == SelectSeq(p, LAMBDA r : r["SELLER"] = s /\ r["HS CODE"] = h)
                        IN IF g = <<>> THEN NaN ELSE Num(SumCol(g, "VALUE(USD)"))]]
    IN [index |-> idx, columns |-> cols,
        cell |-> [s \in idx |-> [h \in cols |-> FillValue(unstacked[s][h], 0)]]]

\* lines 207-212: df_filtered.to_csv(index=False), a header line and one line per row
ToCsv(cols, rows) == [header |-> cols, lines |-> rows]

\* ------------------------------------------------------------------------
\* State
\* ------------------------------------------------------------------------
VARIABLES
    sheet,            \* the spreadsheet read on line 13: [headers, rows]
    pc,               \* "start", "loaded", "ran", "load_error", "script_error", "error"
    err,              \* what the exception names, "" if none
    df,               \* the table load_data returned
    buyers, hs_codes, sellers, industries,   \* the sidebar multiselects
    date_range,       \* the sidebar date input: 0, 1 or 2 dates
    apply_filters,    \* the button's value in the last run
    df_filtered,
    group_choice, summary,
    start_period, end_period, qty_growth, val_growth,
    asp_group, asp_summary,
    hs_choice, asp_min, asp_max, target_summary,
    comp_summary, top_competitors, pivot,
    csv

sidebar == <<buyers, hs_codes, sellers, industries, date_range>>
params == <<group_choice, start_period, end_period, asp_group, hs_choice, asp_min, asp_max>>
outputs == <<df_filtered, summary, qty_growth, val_growth, asp_summary, target_summary,
             comp_summary, top_competitors, pivot, csv>>
vars == <<sheet, pc, err, df, sidebar, apply_filters, params, outputs>>

\* nothing displayed: the values of the outputs before a run and after a failed one
NoOutputs ==
    /\ df_filtered' = <<>>
    /\ summary' = <<>>
    /\ qty_growth' = NaN
    /\ val_growth' = NaN
    /\ asp_summary' = <<>>
    /\ target_summary' = <<>>
    /\ comp_summary' = <<>>
    /\ top_competitors' = <<>>
    /\ pivot' = Pivot(<<>>)
    /\ csv' = ToCsv({}, <<>>)

\* the widgets of the page body as a first run of the script creates them
DefaultParams(rows) ==
    /\ group_choice' = "BUYER"
    /\ start_period' = DateOf(date_min(rows))
    /\ end_period' = DateOf(date_max(rows))
    /\ asp_group' = "HS CODE"
    /\ hs_choice' = Null
    /\ asp_min' = NaN
    /\ asp_max' = NaN

\* what the user asks of a widget in this interaction: a new value, or nothing
Pick(v) == [set |-> TRUE, v |-> v]
KeepHs == [set |-> FALSE, v |-> Null]
KeepAsp == [set |-> FALSE, v |-> NaN]

\* st.selectbox: the value picked; else the value kept while the options are
\* the ones of the last run; else the first option (None without options)
SelectBox(pick, opts, prevOpts, prev) ==
    IF pick.set THEN pick.v
    ELSE IF pc = "ran" /\ opts = prevOpts THEN prev
    ELSE IF opts = <<>> THEN Null ELSE opts[1]

\* st.number_input(value=default): the value entered; else the value kept while
\* the default is the one of the last run; else the default
NumberInput(pick, default, prevDefault, prev) ==
    IF pick.set THEN pick.v
    ELSE IF pc = "ran" /\ default = prevDefault THEN prev
    ELSE default

\* One run of the script body (lines 56-212) with the given widget values.
Rerun(b, h, s, ind, dr, pressed, g, sp, ep, ag, hsPick, loPick, hiPick) ==
    /\ buyers' = b
    /\ hs_codes' = h
    /\ sellers' = s
    /\ industries' = ind
    /\ date_range' = dr
    /\ apply_filters' = pressed
    /\ UNCHANGED <<sheet, df>>
    /\ IF RangeIndexError(pressed, dr)
       THEN /\ pc' = "error"
            /\ err' = "IndexError"
            /\ DefaultParams(df)
            /\ NoOutputs
       ELSE LET view == FilteredView(df, pressed, b, h, s, ind, dr)
                hc == SelectBox(hsPick, HsOptions(view, h),
                                HsOptions(df_filtered, hs_codes), hs_choice)
                lo == NumberInput(loPick, DefaultAspMin(view),
                                  DefaultAspMin(df_filtered), asp_min)
                hi == NumberInput(hiPick, DefaultAspMax(view),
                                  DefaultAspMax(df_filtered), asp_max)
                comp == CompSummary(view)
            IN /\ pc' = "ran"
               /\ err' = ""
               /\ df_filtered' = view
               /\ group_choice' = g
               /\ summary' = Summary(view, g)
               /\ start_period' = sp
               /\ end_period' = ep
               /\ qty_growth' = Growth(df, "QUANTITY", sp, ep)
               /\ val_growth' = Growth(df, "VALUE(USD)", sp, ep)
               /\ asp_group' = ag
               /\ asp_summary' = AspSummary(view, ag)
               /\ hs_choice' = hc
               /\ asp_min' = lo
               /\ asp_max' = hi
               /\ target_summary' = TargetSummary(view, hc, lo, hi)
               /\ comp_summary' = comp
               /\ top_competitors' = HeadRows(comp, HeadN)
               /\ pivot' = Pivot(view)
               /\ csv' = ToCsv(Columns(sheet) \cup {"ASP_COMPUTED"}, view)

\* A rerun that changes the sidebar: the button is not pressed in it
RerunSidebar(b, h, s, ind, dr) ==
    Rerun(b, h, s, ind, dr, FALSE, group_choice, start_period, end_period,
          asp_group, KeepHs, KeepAsp, KeepAsp)

\* A rerun that changes a widget of the page body
RerunBody(g, sp, ep, ag, hsPick, loPick, hiPick) ==
    Rerun(buyers, hs_codes, sellers, industries, date_range, FALSE,
          g, sp, ep, ag, hsPick, loPick, hiPick)

\* ------------------------------------------------------------------------
\* Actions
\* ------------------------------------------------------------------------
\* line 54: df = load_data()
LoadData ==
    /\ pc = "start"
    /\ LET r == load_data(sheet)
       IN /\ pc' = IF r.err = "" THEN "loaded" ELSE "load_error"
          /\ err' = r.err
          /\ df' = r.rows
    /\ UNCHANGED <<sheet, sidebar, apply_filters, params, outputs>>

\* the first run of lines 56-212: every widget at its default
FirstRun ==
    /\ pc = "loaded"
    /\ IF ScriptKeyError(Columns(sheet)) # ""
       THEN /\ pc' = "script_error"
            /\ err' = ScriptKeyError(Columns(sheet))
            /\ UNCHANGED <<sheet, df, sidebar, apply_filters, params, outputs>>
       ELSE Rerun({}, {}, {}, {}, DefaultDateRange(df), FALSE,
                  "BUYER", DateOf(date_min(df)), DateOf(date_max(df)), "HS CODE",
                  KeepHs, KeepAsp, KeepAsp)

SidebarShown == pc \in {"ran", "error"}

SelectBuyers ==
    /\ SidebarShown
    /\ \E b \in SUBSET Unique(df, "BUYER") :
          /\ b # buyers
          /\ RerunSidebar(b, hs_codes, sellers, industries, date_range)

SelectHsCodes ==
    /\ SidebarShown
    /\ \E h \in SUBSET Unique(df, "HS CODE") :
          /\ h # hs_codes
          /\ RerunSidebar(buyers, h, sellers, industries, date_range)

SelectSellers ==
    /\ SidebarShown
    /\ \E s \in SUBSET Unique(df, "SELLER") :
          /\ s # sellers
          /\ RerunSidebar(buyers, hs_codes, s, industries, date_range)

SelectIndustries ==
    /\ SidebarShown
    /\ \E ind \in SUBSET Unique(df, "INDUSTRY") :
          /\ ind # industries
          /\ RerunSidebar(buyers, hs_codes, sellers, ind, date_range)

Days == 1..MaxDay

\* what the range picker can hold: nothing, a start alone, or start <= end
DateRanges == {<<>>} \cup {<<a>> : a \in Days}
                 \cup {<<a, b>> : a \in Days, b \in Days}

SetDateRange ==
    /\ SidebarShown
    /\ \E dr \in DateRanges :
          /\ dr # date_range
          /\ Len(dr) = 2 => dr[1] <= dr[2]
          /\ RerunSidebar(buyers, hs_codes, sellers, industries, dr)

\* line 69: the button is True in the run its press triggers, and only there
PressApply ==
    /\ SidebarShown
    /\ Rerun(buyers, hs_codes, sellers, industries, date_range, TRUE,
             group_choice, start_period, end_period, asp_group,
             KeepHs, KeepAsp, KeepAsp)

ChooseGroup ==
    /\ pc = "ran"
    /\ \E g \in {"BUYER", "HS CODE"} \ {group_choice} :
          RerunBody(g, start_period, end_period, asp_group, KeepHs, KeepAsp, KeepAsp)

SetStartPeriod ==
    /\ pc = "ran"
    /\ \E d \in Days \ {start_period} :
          RerunBody(group_choice, d, end_period, asp_group, KeepHs, KeepAsp, KeepAsp)

SetEndPeriod ==
    /\ pc = "ran"
    /\ \E d \in Days \ {end_period} :
          RerunBody(group_choice, start_period, d, asp_group, KeepHs, KeepAsp, KeepAsp)

ChooseAspGroup ==
    /\ pc = "ran"
    /\ \E ag \in {"HS CODE", "BUYER", "SELLER", "INDUSTRY"} \ {asp_group} :
          RerunBody(group_choice, start_period, end_period, ag, KeepHs, KeepAsp, KeepAsp)

ChooseHs ==
    /\ pc = "ran"
    /\ \E hc \in Range(HsOptions(df_filtered, hs_codes)) \ {hs_choice} :
          RerunBody(group_choice, start_period, end_period, asp_group,
                    Pick(hc), KeepAsp, KeepAsp)

\* the numbers typed into "Min ASP" and "Max ASP"
AspInputs == {Num(2), Num(3)}

SetAspMin ==
    /\ pc = "ran"
    /\ \E v \in AspInputs \ {asp_min} :
          RerunBody(group_choice, start_period, end_period, asp_group,
                    KeepHs, Pick(v), KeepAsp)

SetAspMax ==
    /\ pc = "ran"
    /\ \E v \in AspInputs \ {asp_max} :
          RerunBody(group_choice, start_period, end_period, asp_group,
                    KeepHs, KeepAsp, Pick(v))

\* ------------------------------------------------------------------------
\* Sheets
\* ------------------------------------------------------------------------
DateCell(day, tod) == [kind |-> "ts", day |-> day, tod |-> tod]
BlankDate == [kind |-> "blank", day |-> 0, tod |-> 0]
NumCell(v) == [kind |-> "num", v |-> v]
MoneyCell(v) == [kind |-> "money", v |-> v]
TextCell == [kind |-> "text", v |-> 0]
BlankCell == [kind |-> "blank", v |-> 0]

RawRow(date, buyer, seller, hs, ind, q, v, u) ==
    [c \in Names |->
        CASE c = "DATE" -> date
          [] c = "BUYER" -> buyer
          [] c = "SELLER" -> seller
          [] c = "HS CODE" -> hs
          [] c = "INDUSTRY" -> ind
          [] c = "QUANTITY" -> q
          [] c = "VALUE(USD)" -> v
          [] c = "UNIT PRICE" -> u]

Tables(R, max) == UNION {[1..n -> R] : n \in 1..max}

\* the date widgets need a first and a last date: some DATE cell parses
HasDate(rows) == \E i \in 1..Len(rows) : rows[i]["DATE"].kind = "ts"

DateCells == {BlankDate} \cup {DateCell(d, t) : d \in Days, t \in {0, 1}}

\* the state before line 54 runs
Start(sh) ==
    /\ sheet = sh
    /\ pc = "start"
    /\ err = ""
    /\ df = <<>>
    /\ buyers = {} /\ hs_codes = {} /\ sellers = {} /\ industries = {}
    /\ date_range = <<>>
    /\ apply_filters = FALSE
    /\ group_choice = "BUYER" /\ asp_group = "HS CODE"
    /\ start_period = 1 /\ end_period = 1
    /\ hs_choice = Null /\ asp_min = NaN /\ asp_max = NaN
    /\ df_filtered = <<>> /\ summary = <<>>
    /\ qty_growth = NaN /\ val_growth = NaN
    /\ asp_summary = <<>> /\ target_summary = <<>>
    /\ comp_summary = <<>> /\ top_competitors = <<>>
    /\ pivot = Pivot(<<>>)
    /\ csv = ToCsv({}, <<>>)

\* ------------------------------------------------------------------------
\* Spec: a session on the sidebar filter
\* ------------------------------------------------------------------------
FilterRows ==
    {RawRow(d, b, "S01", "H1", "I1", NumCell(2), NumCell(6), BlankCell) :
        d \in {BlankDate} \cup {DateCell(x, 0) : x \in Days} \cup {DateCell(MaxDay, 1)},
        b \in {"A", Null}}

Init ==
    \E rows \in Tables(FilterRows, MaxRows) :
        /\ HasDate(rows)
        /\ Start([headers |-> Names, rows |-> rows])

Next ==
    \/ LoadData
    \/ FirstRun
    \/ SelectBuyers
    \/ SelectHsCodes
    \/ SelectSellers
    \/ SelectIndustries
    \/ SetDateRange
    \/ PressApply
    \/ ChooseGroup

Spec == Init /\ [][Next]_vars

\* ------------------------------------------------------------------------
\* SpecGrowth: a session on the two growth dates
\* ------------------------------------------------------------------------
GrowthRows ==
    {RawRow(d, "A", "S01", "H1", "I1", NumCell(q), NumCell(3 * q), BlankCell) :
        d \in DateCells, q \in {0, 2, 0 - 2}}

InitGrowth ==
    \E rows \in Tables(GrowthRows, MaxRows) :
        /\ HasDate(rows)
        /\ Start([headers |-> Names, rows |-> rows])

NextGrowth ==
    \/ LoadData
    \/ FirstRun
    \/ SetStartPeriod
    \/ SetEndPeriod

SpecGrowth == InitGrowth /\ [][NextGrowth]_vars

\* ------------------------------------------------------------------------
\* SpecLoad: load_data and the first run, over raw cells and header sets
\* ------------------------------------------------------------------------
UnitCells == {BlankCell, NumCell(4), MoneyCell(4)}
QuantityCells == {NumCell(0), NumCell(2), NumCell(0 - 1), MoneyCell(2)}
ValueCells == {NumCell(6), MoneyCell(6), TextCell}

LoadRows ==
    {RawRow(DateCell(1, 0), "A", "S01", "H1", "I1", q, v, u) :
        q \in QuantityCells, v \in ValueCells, u \in UnitCells}

Headers(names, padded) == {IF padded THEN Padded(n) ELSE n : n \in names}

SampleRows ==
    <<RawRow(DateCell(1, 0), "A", "S01", "H1", "I1", NumCell(2), MoneyCell(6), TextCell),
      RawRow(DateCell(1, 1), "B", "S02", "H2", Null, NumCell(0), NumCell(6), BlankCell)>>

InitLoad ==
    \/ \E rows \in Tables(LoadRows, MaxRows) :
          Start([headers |-> Names, rows |-> rows])
    \/ \E names \in SUBSET Names, padded \in BOOLEAN :
          Start([headers |-> Headers(names, padded), rows |-> SampleRows])

NextLoad ==
    \/ LoadData
    \/ FirstRun

SpecLoad == InitLoad /\ [][NextLoad]_vars

\* ------------------------------------------------------------------------
\* SpecSummary: the group summary and the competitor cross-tabulation
\* ------------------------------------------------------------------------
KeyProfiles ==
    {<<DateCell(1, 0), "A", "S01", "H1">>,
     <<DateCell(1, 0), "B", "S02", "H2">>,
     <<DateCell(2, 0), "A", "S02", Null>>,
     <<BlankDate, Null, Null, "H1">>}

SummaryRows ==
    {RawRow(k[1], k[2], k[3], k[4], "I1", NumCell(q), NumCell(q + 1), BlankCell) :
        k \in KeyProfiles, q \in {1, 2}}

InitSummary ==
    \E rows \in Tables(SummaryRows, MaxSummaryRows) :
        /\ HasDate(rows)
        /\ Start([headers |-> Names, rows |-> rows])

NextSummary ==
    \/ LoadData
    \/ FirstRun
    \/ PressApply
    \/ ChooseGroup

SpecSummary == InitSummary /\ [][NextSummary]_vars

\* ------------------------------------------------------------------------
\* SpecAsp: the reports that average ASP_COMPUTED
\* ------------------------------------------------------------------------
AspRows ==
    {RawRow(DateCell(1, 0), k[1], k[2], k[3], k[4], n[1], n[2], n[3]) :
        k \in {<<"A", "S01", "H1", "I1">>, <<"B", "S02", "H2", Null>>},
        n \in {<<NumCell(2), NumCell(6), BlankCell>>,
               <<NumCell(0), NumCell(5), BlankCell>>,
               <<NumCell(1), NumCell(4), NumCell(2)>>}}

InitAsp ==
    \E rows \in Tables(AspRows, MaxRows) :
        Start([headers |-> Names, rows |-> rows])

NextAsp ==
    \/ LoadData
    \/ FirstRun
    \/ ChooseAspGroup
    \/ ChooseHs
    \/ SetAspMin
    \/ SetAspMax

SpecAsp == InitAsp /\ [][NextAsp]_vars

\* ------------------------------------------------------------------------
\* SpecTop: the top competitors, over sheets with more sellers than the report shows
\* ------------------------------------------------------------------------
SellerNames == <<"S01", "S02", "S03", "S04", "S05", "S06", "S07", "S08", "S09",
                 "S10", "S11", "S12">>

\* one row per seller 1..n; values spread by (m, c); every fourth row undated
TopTable(n, m, c) ==
    [i \in 1..n |->
        RawRow(IF (i + c) % 4 = 0 THEN BlankDate ELSE DateCell(1, 0),
               "A", SellerNames[i], "H1", "I1",
               NumCell(1), NumCell((i * m + c) % 13), BlankCell)]

\* a second row for the first seller
ExtraRow == RawRow(DateCell(1, 0), "B", SellerNames[1], "H2", "I1",
                   NumCell(1), NumCell(3), BlankCell)

InitTop ==
    \E n \in 1..TopSellers, m \in 0..4, c \in 0..4, extra \in BOOLEAN :
        LET rows == IF extra THEN TopTable(n, m, c) \o <<ExtraRow>> ELSE TopTable(n, m, c)
        IN /\ HasDate(rows)
           /\ Start([headers |-> Names, rows |-> rows])

NextTop ==
    \/ LoadData
    \/ FirstRun
    \/ PressApply

SpecTop == InitTop /\ [][NextTop]_vars

\* ------------------------------------------------------------------------
\* Properties
\* ------------------------------------------------------------------------
\* load_data has returned a table
Returned == pc \in {"loaded", "ran", "script_error", "error"}

\* UNIT PRICE of a row of the returned table; no value when the column is absent
UnitPriceOf(r) == IF "UNIT PRICE" \in DOMAIN r THEN r["UNIT PRICE"] ELSE NaN

\* C1: in every row of the table load_data returns, ASP_COMPUTED is UNIT PRICE
\* when UNIT PRICE has a value; VALUE(USD) / QUANTITY when it has none and
\* QUANTITY > 0; and no value when it has none and QUANTITY <= 0.  Hence it has
\* a value iff UNIT PRICE has one or QUANTITY > 0.
C1_AspThreeCases ==
    Returned =>
        \A i \in 1..Len(df) :
            LET r == df[i]
                u == UnitPriceOf(r)
                q == r["QUANTITY"]
                asp == r["ASP_COMPUTED"]
            IN /\ ~u.nan => asp = u
               /\ (u.nan /\ q > 0) =>
                      ~asp.nan /\ asp.n * q = r["VALUE(USD)"] * asp.d
               /\ (u.nan /\ q <= 0) => asp.nan
               /\ ~asp.nan <=> (~u.nan \/ q > 0)

\* a returned table with a row whose unit price is kept although QUANTITY > 0
\* gives another quotient, and a row that took the fallback
C1_Witness ==
    /\ Returned
    /\ \E i, j \in 1..Len(df) :
          /\ ~UnitPriceOf(df[i]).nan /\ df[i]["QUANTITY"] > 0
          /\ df[i]["ASP_COMPUTED"].n * df[i]["QUANTITY"]
                 # df[i]["VALUE(USD)"] * df[i]["ASP_COMPUTED"].d
          /\ UnitPriceOf(df[j]).nan /\ df[j]["QUANTITY"] > 0
          /\ df[j]["VALUE(USD)"] > 0
          /\ ~df[j]["ASP_COMPUTED"].nan

\* the required columns the sheet lacks once its header names are trimmed
Missing == Names \ {Strip(c) : c \in sheet.headers}

\* no filtered view, report or export was produced
NothingComputed ==
    /\ df_filtered = <<>> /\ summary = <<>> /\ asp_summary = <<>>
    /\ target_summary = <<>> /\ comp_summary = <<>> /\ top_competitors = <<>>
    /\ qty_growth.nan /\ val_growth.nan
    /\ csv.lines = <<>>

InLoad == {"QUANTITY", "VALUE(USD)"}
InScript == {"BUYER", "HS CODE", "SELLER", "INDUSTRY", "DATE"}

RowsWith(col, key) == SelectSeq(df_filtered, LAMBDA r : r[col] = key)

KeysOf(col) == {df_filtered[i][col] : i \in 1..Len(df_filtered)} \ {Null}

KeyedRows(col) == SelectSeq(df_filtered, LAMBDA r : r[col] # Null)

\* C7: the group summary has exactly one row per distinct non-null value of
\* the grouping column (BUYER or HS CODE) in the filtered view, none for a null
\* key, and its Total_Qty add up to the QUANTITY of the rows whose key is not null.
C7_GroupSummary ==
    pc = "ran" =>
        /\ group_choice \in {"BUYER", "HS CODE"}
        /\ {summary[i].key : i \in 1..Len(summary)} = KeysOf(group_choice)
        /\ Len(summary) = Cardinality(KeysOf(group_choice))
        /\ \A i \in 1..Len(summary) :
              summary[i].Total_Qty = SumCol(RowsWith(group_choice, summary[i].key), "QUANTITY")
        /\ SumCol(summary, "Total_Qty") = SumCol(KeyedRows(group_choice), "QUANTITY")

\* a filtered view with a row whose key is null and a group of two rows
C7_Witness ==
    /\ pc = "ran"
    /\ apply_filters
    /\ \E i \in 1..Len(df_filtered) : df_filtered[i][group_choice] = Null
    /\ \E i \in 1..Len(summary) : Len(RowsWith(group_choice, summary[i].key)) = 2
    /\ SumCol(summary, "Total_Qty") < SumCol(df_filtered, "QUANTITY")

\* C10: the cross-tabulation has a row for every seller and a column for every
\* HS code that occur together in a row of the filtered view; each cell is the
\* sum of VALUE(USD) over the rows with that seller and that HS code, and is 0,
\* never "no value", when no row has the pair.
C10_CrossTab ==
    pc = "ran" =>
        /\ \A i \in 1..Len(df_filtered) :
              (df_filtered[i]["SELLER"] # Null /\ df_filtered[i]["HS CODE"] # Null) =>
                  /\ df_filtered[i]["SELLER"] \in pivot.index
                  /\ df_filtered[i]["HS CODE"] \in pivot.columns
        /\ \A s \in pivot.index, h \in pivot.columns :
              LET g == SelectSeq(df_filtered,
                                 LAMBDA r : r["SELLER"] = s /\ r["HS CODE"] = h)
              IN /\ ~pivot.cell[s][h].nan
                 /\ pivot.cell[s][h].d = 1
                 /\ pivot.cell[s][h].n = SumCol(g, "VALUE(USD)")
                 /\ g = <<>> => pivot.cell[s][h].n = 0

\* a matrix with a cell for a pair no row has, next to a cell that sums rows
C10_Witness ==
    /\ pc = "ran"
    /\ \E s \in pivot.index, h \in pivot.columns :
          /\ \A i \in 1..Len(df_filtered) :
                ~(df_filtered[i]["SELLER"] = s /\ df_filtered[i]["HS CODE"] = h)
          /\ pivot.cell[s][h] = Num(0)
    /\ \E s \in pivot.index, h \in pivot.columns : pivot.cell[s][h].n > 0

\* the mean of ASP_COMPUTED the claim C8 describes, checked against avg: NaN
\* when no row has a value, else avg * (number of rows with a value) = their sum
IsMeanOfPresent(avg, rows) ==
    LET present == SelectSeq(AspOf(rows), LAMBDA x : ~x.nan)
        total == RatSum(present)
    IN IF present = <<>> THEN avg.nan
       ELSE /\ ~avg.nan
            /\ avg.n * total.d * Len(present) = total.n * avg.d

\* the rows the target customer search keeps
TargetRows ==
    SelectSeq(df_filtered,
              LAMBDA r : /\ r["HS CODE"] = hs_choice
                         /\ ~r["ASP_COMPUTED"].nan /\ ~asp_min.nan /\ ~asp_max.nan
                         /\ asp_min.n * r["ASP_COMPUTED"].d <= r["ASP_COMPUTED"].n * asp_min.d
                         /\ r["ASP_COMPUTED"].n * asp_max.d <= asp_max.n * r["ASP_COMPUTED"].d)

\* C8: in the group summary, the ASP ranking, the target customer search and
\* the competitor mapping, the mean of a group is the sum of ASP_COMPUTED over
\* the group's rows that have a value divided by the number of those rows, and
\* is "not available" when no row of the group has a value.
C8_MeanSkipsMissing ==
    pc = "ran" =>
        /\ \A i \in 1..Len(summary) :
              IsMeanOfPresent(summary[i].Avg_ASP, RowsWith(group_choice, summary[i].key))
        /\ \A i \in 1..Len(asp_summary) :
              IsMeanOfPresent(asp_summary[i].ASP_COMPUTED,
                              RowsWith(asp_group, asp_summary[i].key))
        /\ \A i \in 1..Len(target_summary) :
              IsMeanOfPresent(target_summary[i].Avg_ASP,
                              SelectSeq(TargetRows,
                                        LAMBDA r : r["BUYER"] = target_summary[i].key))
        /\ \A i \in 1..Len(comp_summary) :
              IsMeanOfPresent(comp_summary[i].Avg_ASP,
                              RowsWith("SELLER", comp_summary[i].key))

\* a group with a row that has an ASP and a row that has none, whose mean is
\* the one value, in a run whose target customer search found a buyer
C8_Witness ==
    /\ pc = "ran"
    /\ \E i \in 1..Len(asp_summary) :
          LET g == RowsWith(asp_group, asp_summary[i].key)
          IN /\ Len(g) = 2
             /\ \E a, b \in 1..2 :
                   /\ g[a]["ASP_COMPUTED"].nan
                   /\ ~g[b]["ASP_COMPUTED"].nan
                   /\ RatEq(asp_summary[i].ASP_COMPUTED, g[b]["ASP_COMPUTED"])
                   /\ asp_summary[i].ASP_COMPUTED.n > 0
    /\ target_summary # <<>>

\* the total value of a seller in the filtered view
SellerTotal(s) == SumCol(RowsWith("SELLER", s), "VALUE(USD)")

Min(a, b) == IF a < b THEN a ELSE b

\* C9: the top competitors are min(10, number of distinct non-null sellers)
\* rows, one per seller, in non-increasing order of Total_Value, and no seller
\* left out has a larger Total_Value than a seller shown.
C9_TopCompetitors ==
    pc = "ran" =>
        LET shown == {top_competitors[i].key : i \in 1..Len(top_competitors)}
        IN /\ Len(top_competitors) = Min(HeadN, Cardinality(KeysOf("SELLER")))
           /\ Cardinality(shown) = Len(top_competitors)
           /\ shown \subseteq KeysOf("SELLER")
           /\ \A i \in 1..Len(top_competitors) :
                 top_competitors[i].Total_Value = SellerTotal(top_competitors[i].key)
           /\ \A i, j \in 1..Len(top_competitors) :
                 i < j => top_competitors[i].Total_Value >= top_competitors[j].Total_Value
           /\ \A s \in KeysOf("SELLER") \ shown, i \in 1..Len(top_competitors) :
                 SellerTotal(s) <= top_competitors[i].Total_Value

\* more sellers than the report shows, with unequal totals, one of them left out
C9_Witness ==
    /\ pc = "ran"
    /\ Cardinality(KeysOf("SELLER")) > HeadN
    /\ Len(top_competitors) = HeadN
    /\ top_competitors[1].Total_Value > top_competitors[HeadN].Total_Value
    /\ \E s \in KeysOf("SELLER") :
          /\ \A i \in 1..HeadN : top_competitors[i].key # s
          /\ SellerTotal(s) < top_competitors[HeadN].Total_Value

\* the date predicate of the filter at calendar-date granularity: the row has
\* a date and its day lies in [start, end], whatever its time of day
InDays(ts, start, end) == ~ts.nat /\ start <= ts.day /\ ts.day <= end

\* membership in every selected set that is not empty
InSets(r) ==
    /\ buyers = {} \/ r["BUYER"] \in buyers
    /\ hs_codes = {} \/ r["HS CODE"] \in hs_codes
    /\ sellers = {} \/ r["SELLER"] \in sellers
    /\ industries = {} \/ r["INDUSTRY"] \in industries

\* the Filtered View of the selection the sidebar holds, as the filter computes it
ViewOfSelection ==
    Select(df, FilterMask(df, buyers, hs_codes, sellers, industries, date_range))

\* C2: the table the reports and the export consume is the Filtered View of
\* the active selection after any interaction: once it is, a run that leaves
\* the sidebar selection as it was (a change of the group-by dimension) still
\* consumes that view.
C2_ViewFollowsSelection ==
    [][(/\ pc = "ran" /\ pc' = "ran"
        /\ sidebar' = sidebar /\ Len(date_range) # 1
        /\ df_filtered = ViewOfSelection /\ csv.lines = ViewOfSelection)
       => (df_filtered' = ViewOfSelection' /\ csv'.lines = ViewOfSelection')]_vars

\* C4: when a selection is applied, the Filtered View is exactly the rows of
\* the table, in order, that are in every non-empty selected set and whose
\* date lies in the interval if one is supplied.
C4_FilteredViewIsSelection ==
    (pc = "ran" /\ apply_filters) =>
        df_filtered =
            SelectSeq(df, LAMBDA r :
                /\ InSets(r)
                /\ Len(date_range) = 2 =>
                      InDays(r["DATE"], date_range[1], date_range[2]))

\* C5: when an interval [start, end] is applied, a row passes the date
\* predicate iff it has a date whose calendar day d satisfies
\* start <= d <= end, whatever its time of day.
C5_DateInclusive ==
    (pc = "ran" /\ apply_filters /\ Len(date_range) = 2) =>
        \A i \in 1..Len(df) :
            InSets(df[i]) =>
                ((\E j \in 1..Len(df_filtered) : df_filtered[j] = df[i])
                    <=> InDays(df[i]["DATE"], date_range[1], date_range[2]))

\* the sum of a column over the rows of the unfiltered table dated up to a day
SumUpTo(col, day) ==
    SumCol(SelectSeq(df, LAMBDA r : ~r["DATE"].nat /\ r["DATE"].day <= day), col)

\* growth is "not available" when the sum up to start is zero, and
\* (E - S) / S * 100 otherwise
IsGrowth(g, col) ==
    LET S == SumUpTo(col, start_period)
        E == SumUpTo(col, end_period)
    IN IF S = 0 THEN g.nan
       ELSE ~g.nan /\ g.n * S = (E - S) * 100 * g.d

\* C6: for start <= end, quantity growth and value growth over the unfiltered
\* table are "not available" when S, the sum over the rows dated up to start,
\* is zero, and (E - S) / S * 100 otherwise, E being the sum up to end.
C6_Growth ==
    (pc = "ran" /\ start_period <= end_period) =>
        /\ IsGrowth(qty_growth, "QUANTITY")
        /\ IsGrowth(val_growth, "VALUE(USD)")

====
